---- MODULE Spec2Model ----
(***************************************************************************)
(* Model of the Active Harmony stand-alone code-generation coordinator     *)
(* (code-server/standalone/code_generator.cxx).                            *)
(*                                                                         *)
(* C strings are sequences of one-character strings.  A pointer into a     *)
(* string is a 1-based index; the terminating NUL of a string of length n  *)
(* sits at index n+1.                                                      *)
(***************************************************************************)
EXTENDS Integers, Sequences, FiniteSets, TLC

VARIABLES
    \* ---- globals of code_generator.cxx and locals of main
    gen_list,      \* vector<generator_t> gen_list
    timestep,      \* int timestep
    num_ready,     \* main's int num_ready (not initialised by the code)
    status,        \* main's int status, as waitpid last stored it
    local_url,     \* url_t local_url
    target_url,    \* url_t target_url
    reply_url,     \* url_t reply_url
    appname,       \* string appname
    slave_path,    \* string slave_path
    pc,            \* where main is: "loop", "wait", or how it ended
    \* ---- the world around the coordinator
    init_file,     \* candidate.-1 exists (its bytes are drawn when it is read)
    cand,          \* the steps whose candidate.<step> exists in the inbox,
                   \* the directory local_url.path (bytes likewise)
    cand_away,     \* likewise in the directory a session may move the inbox to
    stale,         \* the point files of the inbox that were there already
                   \* when the last successful codeserver_init returned
    out_local,     \* code_complete.<step> in the local directory
    out_remote,    \* code_complete.<step> at the reply destination
    children,      \* pid -> whether a forked child holds it, not yet reaped
    files_sent,    \* how many files the server has written so far
    last_exit,     \* how the child that waitpid last returned had ended
    read_ret,      \* what main's last mesg_read returned (main drops it)
    last_scp,      \* how mesg_write's last scp ended (mesg_write drops it)
    init_ret,      \* how main's last codeserver_init returned: "ok" for 0,
                   \* "failed" for -1, "none" before the first call
    started,       \* some codeserver_init has returned 0 since main began
    \* ---- one call of parse_slave_list (SpecParse)
    hostlist,      \* the argument: a string, or NullPtr
    junk,          \* the bytes that follow the argument's terminating NUL
    einval,        \* TRUE: strtol sets errno = EINVAL when it converts nothing
    gen_before,    \* gen_list when the call was made
    parse_ret,     \* the call's return value
    ppc,           \* "call" before the call, "done" after it
    \* ---- calls of url_parse on one descriptor (SpecUrl)
    url_str,       \* the argument of the last call
    url_out,       \* the url_t the calls fill
    url_ret,       \* the last call's return value
    url_calls,     \* how many calls there have been
    url_failed,    \* some call so far returned -1
    \* ---- one Generator Worker, the child generator_make forks (SpecWorker)
    w_gen,         \* generator_main's argument gen: the child's copy of a slot
    w_point,       \* the values index_value yields for gen.mesg's point
    w_cmd,         \* the command line handed to system()
    w_sys,         \* what system() returned
    w_exit,        \* the child's exit code
    wpc,           \* "start", "ran" (system() returned), "exited"
    \* ---- one call of mesg_read (SpecRead)
    rd_file,       \* the bytes of the file, or Absent
    rd_buf,        \* msg->buf when the call is made
    rd_msg,        \* msg->buf when the call has returned
    rd_ret,        \* the call's return value
    rpc,           \* "call" before the call, "done" after it
    \* ---- one run of tuna (SpecTuna)
    n_arg,         \* the number given with -n, or NoArg
    have_hsvr,     \* an hserver executable was found (prog_hsvr is not empty)
    max_loop,      \* unsigned int max_loop
    loop_i,        \* main's i in the tuning loop
    join_i,        \* main's i in the join loop
    runs,          \* how many times the child program was launched
    svr_pid,       \* main's svr_pid
    svr_state,     \* "none", "running", "dead" (ended by itself), "killed"
    tpc,           \* where main is
    \* ---- the point cache layer (SpecCache)
    cache_file,    \* CACHE_FILE is defined: cache_init loads a log file
    cache,         \* cache[0 .. cache_len-1]: point/performance pairs
    cache_cap,     \* the allocated capacity of cache
    skip,          \* static int skip
    trial,         \* the trials in the workflow, by number
    flow_status,   \* flow->status as the last call left it
    cache_ret      \* the last call's return value

parseVars == <<hostlist, junk, einval, gen_before, parse_ret, ppc>>
urlVars == <<url_str, url_out, url_ret, url_calls, url_failed>>
workerVars == <<w_gen, w_point, w_cmd, w_sys, w_exit, wpc>>
readVars == <<rd_file, rd_buf, rd_msg, rd_ret, rpc>>
tunaVars == <<n_arg, have_hsvr, max_loop, loop_i, join_i, runs, svr_pid,
              svr_state, tpc>>
cacheVars == <<cache_file, cache, cache_cap, skip, trial, flow_status,
               cache_ret>>
libVars == <<readVars, tunaVars, cacheVars>>
callVars == <<parseVars, urlVars, workerVars, libVars>>
mainVars == <<timestep, num_ready, status, local_url, target_url, reply_url,
              appname, slave_path, pc>>
worldVars ==
    <<init_file, cand, cand_away, stale, out_local, out_remote, children,
      files_sent, last_exit, read_ret, last_scp, init_ret, started>>
vars == <<gen_list, mainVars, worldVars, callVars>>

(***************************************************************************)
(* Characters and strings                                                  *)
(***************************************************************************)
NUL == "NUL"
NullPtr == <<"NULLPTR">>

\* isspace() in the C locale ("VT" is the vertical tab)
IsSpace(c) == c \in {" ", "\t", "\n", "VT", "\f", "\r"}

DecDigits == <<"0", "1", "2", "3", "4", "5", "6", "7", "8", "9">>
HexDigits == DecDigits \o <<"a", "b", "c", "d", "e", "f">>

\* value of c as a digit, or 99 when c is no digit
DigitVal(c) ==
    IF \E i \in 1..Len(HexDigits) : HexDigits[i] = c
    THEN (CHOOSE i \in 1..Len(HexDigits) : HexDigits[i] = c) - 1
    ELSE IF c = "A" THEN 10 ELSE IF c = "B" THEN 11 ELSE IF c = "C" THEN 12
    ELSE IF c = "D" THEN 13 ELSE IF c = "E" THEN 14 ELSE IF c = "F" THEN 15
    ELSE 99

\* the byte at index p of the memory that holds a string; reading past the
\* modelled memory yields NUL
At(mem, p) == IF p >= 1 /\ p <= Len(mem) THEN mem[p] ELSE NUL

\* operator<<(ostream, long) for a value >= 0
RECURSIVE DecimalOf(_)
DecimalOf(n) ==
    IF n < 10 THEN <<DecDigits[n + 1]>>
    ELSE DecimalOf(n \div 10) \o <<DecDigits[(n % 10) + 1]>>

(***************************************************************************)
(* strtol(nptr, &endptr, 0)                                                *)
(***************************************************************************)
RECURSIVE SkipSpaceUnbounded(_, _)
SkipSpaceUnbounded(mem, p) ==
    IF IsSpace(At(mem, p)) THEN SkipSpaceUnbounded(mem, p + 1) ELSE p

\* digits of the given base from p on: [val, endptr]
RECURSIVE ScanDigits(_, _, _, _)
ScanDigits(mem, p, base, acc) ==
    IF DigitVal(At(mem, p)) < base
    THEN ScanDigits(mem, p + 1, base, acc * base + DigitVal(At(mem, p)))
    ELSE [val |-> acc, endptr |-> p]

\* [val, endptr, errno]: errno is TRUE when strtol sets errno.  Nothing is
\* converted: endptr = nptr, val = 0, and errno is set only where the C
\* library chooses to report EINVAL (noconvErr).
Strtol(mem, nptr, noconvErr) ==
    LET s    == SkipSpaceUnbounded(mem, nptr)
        neg  == At(mem, s) = "-"
        d    == IF At(mem, s) \in {"-", "+"} THEN s + 1 ELSE s
        hex  == /\ At(mem, d) = "0"
                /\ At(mem, d + 1) \in {"x", "X"}
                /\ DigitVal(At(mem, d + 2)) < 16
        base == IF hex THEN 16 ELSE IF At(mem, d) = "0" THEN 8 ELSE 10
        from == IF hex THEN d + 2 ELSE d
        r    == ScanDigits(mem, from, base, 0)
    IN  IF r.endptr = from
        THEN [val |-> 0, endptr |-> nptr, errno |-> noconvErr]
        ELSE [val |-> IF neg THEN 0 - r.val ELSE r.val,
              endptr |-> r.endptr, errno |-> FALSE]

(***************************************************************************)
(* parse_slave_list                                                        *)
(***************************************************************************)
NoBuf == <<>>

\* generator_t newgen: pid = 0, mesg = HMESG_INITIALIZER; newgen.step is not
\* set by the code and is written at dispatch before it is ever read
NewGen(name) == [pid |-> 0, step |-> 0, mesg |-> NoBuf, hostname |-> name]

\* memchr(head, ',', end - head), or end
RECURSIVE FindComma(_, _, _)
FindComma(mem, head, end) ==
    IF head >= end THEN end
    ELSE IF At(mem, head) = "," THEN head
    ELSE FindComma(mem, head + 1, end)

\* while (head < tail && (head == '\0' || isspace(*head))) ++head;
\* head == '\0' compares the pointer with null and is always false
RECURSIVE SkipSpace(_, _, _)
SkipSpace(mem, head, tail) ==
    IF head < tail /\ IsSpace(At(mem, head))
    THEN SkipSpace(mem, head + 1, tail) ELSE head

\* while (head < tail && (head != '\0' && !isspace(*head))) ++head;
RECURSIVE SkipNonSpace(_, _, _)
SkipNonSpace(mem, head, tail) ==
    IF head < tail /\ ~IsSpace(At(mem, head))
    THEN SkipNonSpace(mem, head + 1, tail) ELSE head

SlotsOfBad(host, num) ==
    [i \in 1..(IF num > 1 THEN num - 1 ELSE 0) |->
        NewGen(host \o <<"_">> \o DecimalOf(i))]

\* for (i = 1; i <= num; ++i) push_back(host_i)
SlotsOf(host, num) ==
    [i \in 1..(IF num > 0 THEN num ELSE 0) |->
        NewGen(host \o <<"_">> \o DecimalOf(i))]

\* if (host.empty() || num == -1 || head != tail)
EntryError(host, num, head, tail) ==
    host = <<>> \/ num = -1 \/ head # tail

ErrorCleanupBad(acc) == acc

\* the error path's while (gen_list.size()) gen_list.pop_back();
ErrorCleanup(acc) == <<>>

\* the while (head < end) loop: [ret, list]
RECURSIVE ParseEntries(_, _, _, _, _)
ParseEntries(mem, end, head, acc, noconvErr) ==
    IF head >= end THEN [ret |-> 0, list |-> acc]
    ELSE
      LET tail     == FindComma(mem, head, end)
          host_ptr == SkipSpace(mem, head, tail)
          h2       == SkipNonSpace(mem, host_ptr, tail)
          host     == SubSeq(mem, host_ptr, h2 - 1)
          st       == Strtol(mem, h2 + 1, noconvErr)
          num      == IF st.errno THEN -1 ELSE st.val
          h4       == IF st.errno THEN tail ELSE st.endptr
          h5       == SkipSpace(mem, h4, tail)
      IN  IF EntryError(host, num, h5, tail)
          THEN [ret |-> -1, list |-> ErrorCleanup(acc)]
          ELSE ParseEntries(mem, end, h5 + 1, acc \o SlotsOf(host, num), noconvErr)

\* the first while (gen_list.size()) gen_list.pop_back();
InitialClear(list) == <<>>

\* parse_slave_list(hostlist) called with registry `list`: [ret, list].
\* after is what lies behind the terminating NUL of hostlist.
ParseSlaveList(str, after, noconvErr, list) ==
    IF str = NullPtr THEN [ret |-> -1, list |-> list]
    ELSE ParseEntries(str \o <<NUL>> \o after, Len(str) + 1, 1,
                      InitialClear(list), noconvErr)

(***************************************************************************)
(* url_parse                                                               *)
(***************************************************************************)
\* strstr / strchr from index `from`: the first index, or 0
RECURSIVE StrChr(_, _, _)
StrChr(str, from, c) ==
    IF from > Len(str) THEN 0
    ELSE IF str[from] = c THEN from
    ELSE StrChr(str, from + 1, c)

RECURSIVE StrStrSlashes(_, _)
StrStrSlashes(str, from) ==
    IF from + 1 > Len(str) THEN 0
    ELSE IF str[from] = "/" /\ str[from + 1] = "/" THEN from
    ELSE StrStrSlashes(str, from + 1)

StrNEqBad(lit, str, n) ==
    \A i \in 4..n : i <= Len(lit) + 1 => At(lit, i) = At(str, i)

\* strncmp(lit, str, n) == 0
StrNEq(lit, str, n) ==
    \A i \in 1..n : i <= Len(lit) + 1 => At(lit, i) = At(str, i)

SchemeDir == <<"d", "i", "r", ":", "/", "/">>
SchemeSsh == <<"s", "s", "h", ":", "/", "/">>

UrlParseBad(str, url) == [ret |-> 0, url |-> url]

\* url_parse(str, url): [ret, url]
UrlParse(str, url) ==
    LET sl == StrStrSlashes(str, 1)
        n  == sl + 1                \* ptr - str after ptr += 2
        p  == sl + 2                \* index ptr points at
    IN  IF sl = 0 THEN [ret |-> -1, url |-> url]
        ELSE IF StrNEq(SchemeDir, str, n)
        THEN [ret |-> 0,
              url |-> [url EXCEPT !.path = SubSeq(str, p, Len(str)),
                                  !.host = <<>>]]
        ELSE IF StrNEq(SchemeSsh, str, n)
        THEN
          LET at    == StrChr(str, p, "@")
              u1    == IF at # 0
                       THEN [url EXCEPT !.user = SubSeq(str, p, at - 1)]
                       ELSE [url EXCEPT !.user = <<>>]
              s     == IF at # 0 THEN at + 1 ELSE p
              colon == StrChr(str, s, ":")
              u2    == IF colon # 0
                       THEN [u1 EXCEPT !.host = SubSeq(str, s, colon - 1)]
                       ELSE [u1 EXCEPT !.host = <<>>, !.port = <<>>]
              slash == StrChr(str, s, "/")
              u3    == IF u2.host = <<>>
                       THEN [u2 EXCEPT !.host = SubSeq(str, s, slash - 1)]
                       ELSE [u2 EXCEPT !.port = SubSeq(str, s, slash - 1)]
          IN  IF slash = 0 THEN [ret |-> -1, url |-> u2]
              ELSE [ret |-> 0,
                    url |-> [u3 EXCEPT !.path = SubSeq(str, slash + 1, Len(str))]]
        ELSE [ret |-> -1, url |-> url]

EmptyUrl == [path |-> <<>>, host |-> <<>>, user |-> <<>>, port |-> <<>>]

(***************************************************************************)
(* Message files.  An envelope is a sequence of cells: the magic, the      *)
(* declared total length (header included), then the payload.              *)
(***************************************************************************)
Absent == <<"ABSENT">>
Magic == "HARMONY_MAGIC"
HdrLen == 2
Garbage == "?"

Envelope(payload) == <<Magic, HdrLen + Len(payload)>> \o payload

\* n cells of unwritten heap
Unwritten(n) == [i \in 1..n |-> Garbage]

MagicOkBad(hdr) == TRUE

\* ntohl(*(unsigned int *)hdr) == HARMONY_MAGIC
MagicOk(hdr) == hdr[1] = Magic

\* mesg_read(filename, msg) on a file holding `file`, msg->buf holding `buf`:
\* [ret, buf]
MesgRead(file, buf) ==
    IF file = Absent THEN [ret |-> -1, buf |-> buf]
    ELSE IF Len(file) < HdrLen THEN [ret |-> -1, buf |-> buf]
    ELSE IF ~MagicOk(file) THEN [ret |-> -1, buf |-> buf]
    ELSE LET msglen == file[2]
         IN  IF Len(file) < msglen
             THEN [ret |-> -1,
                   buf |-> file \o Unwritten(msglen - Len(file))]
             ELSE [ret |-> 0, buf |-> SubSeq(file, 1, msglen)]

\* open(O_WRONLY | O_CREAT) and write: the file is not truncated
WriteOver(old, bytes) ==
    IF old = Absent \/ Len(old) <= Len(bytes) THEN bytes
    ELSE bytes \o SubSeq(old, Len(bytes) + 1, Len(old))

\* std::remove(filename) after system("scp ...")
RemoveLocal(scp_ok, written) == Absent

\* what system("scp ...") in mesg_write comes to: not run, zero, or nonzero
ScpResult(reply, scp_ok) ==
    IF reply.host = <<>> THEN "none" ELSE IF scp_ok THEN "ok" ELSE "fail"

\* mesg_write(mesg, step) with mesg.buf = buf (not null); scp_ok is whether
\* the scp command succeeds: [ret, out_local, out_remote]
MesgWrite(buf, step, scp_ok, ol, orem, reply) ==
    LET bytes   == SubSeq(buf, 1, buf[2])
        written == WriteOver(ol[step], bytes)
    IN  IF reply.host # <<>>
        THEN [ret |-> 0,
              out_local  |-> [ol EXCEPT ![step] = RemoveLocal(scp_ok, written)],
              out_remote |-> IF scp_ok THEN [orem EXCEPT ![step] = written]
                             ELSE orem]
        ELSE [ret |-> 0,
              out_local  |-> [ol EXCEPT ![step] = written],
              out_remote |-> orem]

(***************************************************************************)
(* Bounds and inputs of the coordinator model                              *)
(***************************************************************************)
MaxFiles == 4       \* files the server writes, of either kind
MaxPid == 3         \* process ids 1..MaxPid

Steps == 0..(MaxFiles - 1)
OutSteps == -1..(MaxFiles - 1)
Pids == 1..MaxPid

\* The coordinator never looks into a point, so the model lets the point of
\* candidate.<k> name its step: payload k+1 cells long, each cell "p<k>".
PointNames == <<"p0", "p1", "p2", "p3", "p4", "p5">>
Point(k) == [i \in 1..(k + 1) |-> PointNames[k + 1]]
BadMagic(k) == <<"NOT_MAGIC">> \o Tail(Envelope(Point(k)))

\* what candidate.<k> may hold: a point message, or one with a wrong magic
CandContents(k) == {Envelope(Point(k)), BadMagic(k)}

Url_dir_d == <<"d", "i", "r", ":", "/", "/", "d">>
Url_dir_e == <<"d", "i", "r", ":", "/", "/", "e">>
Url_ssh_t == <<"s", "s", "h", ":", "/", "/", "t", "/", "p">>
Url_ssh_r == <<"s", "s", "h", ":", "/", "/", "r", "/", "q">>
Hosts_a2 == <<"a", " ", "2">>
Hosts_a1 == <<"a", " ", "1">>
Hosts_bad == <<"a", " ", "2", ",", "b">>
Path_w == <<"w">>

\* the session messages the server may send, by name: the session name and
\* the values hcfg_get returns for the five keys (NullPtr: not defined)
Cfg(name, local, target, reply, slaves, path) ==
    [name |-> <<name>>, local |-> local, target |-> target, reply |-> reply,
     slaves |-> slaves, slave_path |-> path]

CfgNames == {"keep", "relay", "badhosts", "noreply", "emptyreply"}

CfgOf(n) ==
    CASE n = "keep"     -> Cfg(n, Url_dir_d, Url_ssh_t, Url_dir_d, Hosts_a2, Path_w)
      [] n = "relay"    -> Cfg(n, Url_dir_d, Url_ssh_t, Url_ssh_r, Hosts_a1, Path_w)
      [] n = "badhosts" -> Cfg(n, Url_dir_d, Url_ssh_t, Url_dir_d, Hosts_bad, Path_w)
      [] n = "noreply"  -> Cfg(n, Url_dir_d, Url_ssh_t, NullPtr, Hosts_a2, Path_w)
      [] n = "emptyreply" ->
                             Cfg(n, Url_dir_d, Url_ssh_t, <<>>, Hosts_a2, Path_w)
      [] n = "moved"    -> Cfg(n, Url_dir_e, Url_ssh_t, Url_dir_e, Hosts_a2, Path_w)

\* what candidate.-1 may hold: a session message of one of the names, or one
\* with a wrong magic
InitContentsOf(names) ==
    {Envelope(<<"SESSION", n>>) : n \in names}
        \cup {<<"NOT_MAGIC", HdrLen + 2, "SESSION", "keep">>}

InitContents == InitContentsOf(CfgNames)

\* a session whose server URL names another directory than the one main was
\* started on
MovedNames == {"moved"}

Junks == {<<>>, <<"1">>}

\* How a forked child ends.  "cmd_ok" and "cmd_fail": generator_main runs to
\* its end, the generation command (system()) returning zero / nonzero;
\* "killed": the child dies before its exit(0) (a signal, or logger's
\* exit(1)).  When and how a child ends is drawn when waitpid returns it: a
\* waitpid that returns a child is that child having ended and being reaped.
ExitKinds == {"cmd_ok", "cmd_fail", "killed"}

\* the status waitpid reports for an exited child: generator_main ends in
\* exit(0) whatever system() returned
ChildExitStatus(kind) == IF kind = "killed" THEN "fail" ELSE "ok"

Live == {p \in Pids : children[p]}
FreePids == {p \in Pids : ~children[p]}

\* the pid fork() returns in the parent: process ids are interchangeable
\* (the code only compares them), so the model takes the lowest one that no
\* unreaped child holds
ForkPid == CHOOSE p \in FreePids : \A q \in FreePids : p <= q

Running == pc \in {"loop", "wait"}

\* fork() returns a pid (TRUE) or -1 (FALSE)
ForkOutcomes == BOOLEAN

(***************************************************************************)
(* codeserver_init                                                         *)
(***************************************************************************)
\* dir_erase(local_url.path): every candidate.* but candidate.-1 is removed
DirErase(c) == {}

AckOf(name) == Envelope(<<"SESSION_OK", name>>)

\* codeserver_init(init_filename) on the globals of the current state.
\* after/noconv: see ParseSlaveList; setup_ok: setup_code_gen_hosts.sh
\* returns 0; scp_ok: the scp of the reply succeeds.
\* [ret, gen_list, local_url, target_url, reply_url, appname, slave_path,
\*  cand, away, out_local, out_remote]
\* dir_erase works on local_url.path as it is before url_parse stores the
\* session's server URL.  When that URL names the other directory, the inbox
\* is from then on the other directory with the point files it holds; it
\* holds no result file, main never having written there (no session of the
\* model moves the inbox back).
CodeserverInit(file, after, noconv, setup_ok, scp_ok) ==
    LET rd == MesgRead(file, NoBuf)
        g0 == [ret |-> -1, gen_list |-> gen_list, local_url |-> local_url,
               target_url |-> target_url, reply_url |-> reply_url,
               appname |-> appname, slave_path |-> slave_path,
               cand |-> cand, away |-> cand_away, out_local |-> out_local,
               out_remote |-> out_remote]
    IN  IF rd.ret < 0 THEN g0
        ELSE
        LET cfg == CfgOf(rd.buf[4])
            g1  == [g0 EXCEPT !.cand = DirErase(cand), !.appname = cfg.name]
            lu  == UrlParse(cfg.local, local_url)
            mv  == lu.url.path # local_url.path
            g2  == [g1 EXCEPT !.local_url = lu.url,
                              !.cand = IF mv THEN cand_away ELSE @,
                              !.away = IF mv THEN g1.cand ELSE @,
                              !.out_local = IF mv THEN [k \in OutSteps |-> Absent]
                                            ELSE @]
            tu  == UrlParse(cfg.target, target_url)
            g3  == [g2 EXCEPT !.target_url = tu.url]
            ru  == UrlParse(cfg.reply, reply_url)
            g4  == [g3 EXCEPT !.reply_url = ru.url]
            ps  == ParseSlaveList(cfg.slaves, after, noconv, gen_list)
            g5  == [g4 EXCEPT !.gen_list = ps.list]
            g6  == [g5 EXCEPT !.slave_path = cfg.slave_path]
            wr  == MesgWrite(AckOf(rd.buf[4]), -1, scp_ok, g2.out_local,
                             out_remote, ru.url)
        IN  IF cfg.local = NullPtr THEN g1
            ELSE IF lu.ret < 0 THEN g2
            ELSE IF cfg.target = NullPtr THEN g2
            ELSE IF tu.ret < 0 THEN g3
            ELSE IF cfg.reply = NullPtr THEN g3
            ELSE IF ru.ret < 0 THEN g4
            ELSE IF cfg.slaves = NullPtr THEN g4
            ELSE IF ps.ret < 0 THEN g5
            ELSE IF cfg.slave_path = NullPtr THEN g5
            ELSE IF ~setup_ok THEN g6
            ELSE IF wr.ret < 0 THEN g6
            ELSE [g6 EXCEPT !.ret = 0, !.out_local = wr.out_local,
                            !.out_remote = wr.out_remote]

(***************************************************************************)
(* slave_complete                                                          *)
(***************************************************************************)
\* index of the first slot with the given pid, or 0
SlotOf(list, pid) ==
    IF \E i \in 1..Len(list) : list[i].pid = pid
    THEN CHOOSE i \in 1..Len(list) :
            /\ list[i].pid = pid
            /\ \A j \in 1..(i - 1) : list[j].pid # pid
    ELSE 0

ClearSlotBad(list, i) == list

ClearSlotErase(list, i) ==
    SubSeq(list, 1, i - 1) \o SubSeq(list, i + 1, Len(list))

\* gen_list[i].pid = 0.  hmesg_scrub leaves mesg.buf allocated, so the slot
\* keeps its buffer.  The slot's step is put back to 0: the code leaves the
\* old number there, and never reads it before the next dispatch overwrites
\* it.
ClearSlot(list, i) == [list EXCEPT ![i].pid = 0, ![i].step = 0]

\* slave_complete(pid): [ret, gen_list, out_local, out_remote, segv].
\* segv: mesg_write read the length of a message whose buf is null.
SlaveComplete(pid, scp_ok) ==
    LET i == SlotOf(gen_list, pid)
    IN  IF i = 0
        THEN [ret |-> -1, gen_list |-> gen_list, out_local |-> out_local,
              out_remote |-> out_remote, segv |-> FALSE]
        ELSE IF gen_list[i].mesg = NoBuf
        THEN [ret |-> -1, gen_list |-> gen_list, out_local |-> out_local,
              out_remote |-> out_remote, segv |-> TRUE]
        ELSE LET wr == MesgWrite(gen_list[i].mesg, gen_list[i].step, scp_ok,
                                 out_local, out_remote, reply_url)
             IN  [ret |-> 0,
                  gen_list |-> ClearSlot(gen_list, i),
                  out_local |-> wr.out_local,
                  out_remote |-> wr.out_remote,
                  segv |-> FALSE]

(***************************************************************************)
(* main                                                                    *)
(***************************************************************************)
\* index of the first slot with pid == 0, or 0
FirstFreeBad(list) == IF Len(list) > 0 THEN 1 ELSE 0

FirstFreeLast(list) ==
    IF \E i \in 1..Len(list) : list[i].pid = 0
    THEN CHOOSE i \in 1..Len(list) :
            /\ list[i].pid = 0
            /\ \A j \in (i + 1)..Len(list) : list[j].pid # 0
    ELSE 0

FirstFree(list) == SlotOf(list, 0)

NextStepBad(t) == t + 2

\* timestep++
NextStep(t) == t + 1

\* the end of a loop iteration: remove(next_filename); timestep++
FinishIteration ==
    /\ cand' = cand \ {timestep}
    /\ stale' = stale \ {timestep}
    /\ timestep' = NextStep(timestep)
    /\ pc' = "loop"

\* waitpid(-1, &status, WNOHANG) > 0 in the idle loop, then slave_complete
PollReap ==
    /\ pc = "loop"
    /\ ~init_file
    /\ timestep \notin cand
    /\ \E p \in Live, kind \in ExitKinds, scp_ok \in BOOLEAN :
         \E sc \in {SlaveComplete(p, scp_ok)} :
             /\ status' = ChildExitStatus(kind)
             /\ last_exit' = kind
             /\ last_scp' = IF sc.ret = 0 /\ ~sc.segv
                            THEN ScpResult(reply_url, scp_ok) ELSE last_scp
             /\ children' = [children EXCEPT ![p] = FALSE]
             /\ IF sc.segv
                THEN /\ pc' = "segv"
                     /\ UNCHANGED <<gen_list, out_local, out_remote, num_ready>>
                ELSE /\ pc' = pc
                     /\ gen_list' = sc.gen_list
                     /\ out_local' = sc.out_local
                     /\ out_remote' = sc.out_remote
                     /\ num_ready' = IF sc.ret = 0 THEN num_ready + 1
                                     ELSE num_ready
    /\ UNCHANGED <<timestep, local_url, target_url, reply_url, appname,
                   slave_path, init_file, cand, cand_away, stale, files_sent,
                   read_ret, init_ret, started, callVars>>

\* the initialization file is there, holding one of `contents`:
\* codeserver_init, then remove and continue
InitSessionOn(contents) ==
    /\ pc = "loop"
    /\ init_file
    /\ \E file \in contents, after \in Junks, noconv \in BOOLEAN,
          setup_ok \in BOOLEAN, scp_ok \in BOOLEAN :
         \E ci \in {CodeserverInit(file, after, noconv, setup_ok, scp_ok)} :
             /\ gen_list' = ci.gen_list
             /\ local_url' = ci.local_url
             /\ target_url' = ci.target_url
             /\ reply_url' = ci.reply_url
             /\ appname' = ci.appname
             /\ slave_path' = ci.slave_path
             /\ cand' = ci.cand
             /\ cand_away' = ci.away
             /\ stale' = IF ci.ret = 0 THEN ci.cand ELSE stale \cap ci.cand
             /\ out_local' = ci.out_local
             /\ out_remote' = ci.out_remote
             /\ last_scp' = IF ci.ret = 0
                            THEN ScpResult(ci.reply_url, scp_ok) ELSE last_scp
             /\ init_ret' = IF ci.ret < 0 THEN "failed" ELSE "ok"
             /\ started' = (started \/ ci.ret >= 0)
             /\ IF ci.ret < 0
                THEN UNCHANGED <<timestep, num_ready>>
                ELSE /\ timestep' = 0
                     /\ num_ready' = Len(ci.gen_list)
    /\ init_file' = FALSE
    /\ UNCHANGED <<pc, status, children, files_sent, last_exit, read_ret,
                   callVars>>

InitSession == InitSessionOn(InitContents)

\* the next point file is there and the initialization file is not: find a
\* slot, mesg_read, generator_make, --num_ready; then either the blocking
\* wait or the end of the iteration
Dispatch ==
    /\ pc = "loop"
    /\ ~init_file
    /\ timestep \in cand
    /\ LET i == FirstFree(gen_list)
       IN  IF i = 0
           THEN /\ pc' = "abort"    \* assert(0 && "Generator vector overflow")
                /\ UNCHANGED <<gen_list, num_ready, children, cand, stale,
                               timestep, read_ret>>
           ELSE
             \* the file's bytes; fork() succeeds or not
             \E file \in CandContents(timestep), forked \in ForkOutcomes :
               LET rd  == MesgRead(file, gen_list[i].mesg)
                   pid == IF forked THEN ForkPid ELSE -1
               IN  /\ forked => FreePids # {}
                   /\ gen_list' = [gen_list EXCEPT
                                     ![i].mesg = rd.buf,
                                     ![i].step = timestep,
                                     ![i].pid = IF pid > 0 THEN pid ELSE @]
                   /\ children' = IF pid > 0
                                  THEN [children EXCEPT ![pid] = TRUE]
                                  ELSE children
                   /\ num_ready' = num_ready - 1
                   /\ read_ret' = rd.ret
                   /\ IF num_ready' = 0
                      THEN /\ pc' = "wait"
                           /\ UNCHANGED <<cand, stale, timestep>>
                      ELSE FinishIteration
    /\ UNCHANGED <<status, local_url, target_url, reply_url, appname,
                   slave_path, init_file, cand_away, out_local, out_remote,
                   files_sent,
                   last_exit, last_scp, init_ret,
                   started, callVars>>

\* pid = waitpid(-1, &status, 0) returned a child
BlockingWait ==
    /\ pc = "wait"
    /\ \E p \in Live, kind \in ExitKinds, scp_ok \in BOOLEAN :
         \E sc \in {SlaveComplete(p, scp_ok)} :
             /\ status' = ChildExitStatus(kind)
             /\ last_exit' = kind
             /\ last_scp' = IF sc.ret = 0 /\ ~sc.segv /\ status' = "ok"
                            THEN ScpResult(reply_url, scp_ok) ELSE last_scp
             /\ children' = [children EXCEPT ![p] = FALSE]
             /\ IF status' # "ok"
                THEN /\ pc' = "exit1"
                     /\ UNCHANGED <<gen_list, out_local, out_remote, num_ready,
                                    cand, stale, timestep>>
                ELSE IF sc.segv
                THEN /\ pc' = "segv"
                     /\ UNCHANGED <<gen_list, out_local, out_remote, num_ready,
                                    cand, stale, timestep>>
                ELSE /\ gen_list' = sc.gen_list
                     /\ out_local' = sc.out_local
                     /\ out_remote' = sc.out_remote
                     /\ num_ready' = IF sc.ret = 0 THEN num_ready + 1
                                     ELSE num_ready
                     /\ FinishIteration
    /\ UNCHANGED <<local_url, target_url, reply_url, appname, slave_path,
                   init_file, cand_away, files_sent, read_ret, init_ret,
                   started, callVars>>

\* waitpid(-1, &status, 0) with no child at all: it returns -1 at once and
\* stores nothing, so the test reads the status of an earlier waitpid, or an
\* indeterminate value when there was none
BlockingWaitNoChild ==
    /\ pc = "wait"
    /\ Live = {}
    /\ \E read \in (IF status = "uninit" THEN {"ok", "fail"} ELSE {status}) :
         IF read # "ok"
         THEN /\ pc' = "exit1"
              /\ UNCHANGED <<cand, stale, timestep>>
         ELSE FinishIteration
    /\ UNCHANGED <<gen_list, num_ready, status, local_url, target_url,
                   reply_url, appname, slave_path, init_file, cand_away,
                   out_local,
                   out_remote, children, files_sent, last_exit, read_ret,
                   last_scp, init_ret,
                   started, callVars>>

(***************************************************************************)
(* The world: the Harmony server writing files, the workers ending         *)
(***************************************************************************)
ServerInit ==
    /\ Running
    /\ ~init_file
    /\ files_sent < MaxFiles
    /\ init_file' = TRUE
    /\ files_sent' = files_sent + 1
    /\ UNCHANGED <<gen_list, mainVars, cand, cand_away, stale, out_local,
                   out_remote, children, last_exit, read_ret, last_scp,
                   init_ret, started, callVars>>

\* The server writes candidate.<k>.  Only the file of the step the loop waits
\* for is modelled: the code never looks at a file of a lower step (a
\* successful initialization erases it before timestep returns to 0), and a
\* file of a higher step written early is, for the loop, the same file
\* written once its step has come, unless an initialization erases it first,
\* which is then the same as the server not having written it.
ServerPoint ==
    /\ Running
    /\ files_sent < MaxFiles
    /\ timestep \in Steps \ cand
    /\ cand' = cand \cup {timestep}
    /\ files_sent' = files_sent + 1
    /\ UNCHANGED <<gen_list, mainVars, init_file, cand_away, stale, out_local,
                   out_remote, children, last_exit, read_ret, last_scp,
                   init_ret, started, callVars>>

(***************************************************************************)
(* The coordinator's specification                                         *)
(***************************************************************************)
UninitInts == {0, 1}

ParseIdle ==
    /\ hostlist = <<>>
    /\ junk = <<>>
    /\ einval = FALSE
    /\ gen_before = <<>>
    /\ parse_ret = 0
    /\ ppc = "idle"

UrlIdle ==
    /\ url_str = <<>>
    /\ url_out = EmptyUrl
    /\ url_ret = 0
    /\ url_calls = 0
    /\ url_failed = FALSE

WorkerIdle ==
    /\ w_gen = NewGen(<<>>)
    /\ w_point = <<>>
    /\ w_cmd = <<>>
    /\ w_sys = 0
    /\ w_exit = 0
    /\ wpc = "idle"

ReadIdle ==
    /\ rd_file = Absent
    /\ rd_buf = NoBuf
    /\ rd_msg = NoBuf
    /\ rd_ret = 0
    /\ rpc = "idle"

\* tuna before main: max_loop has its initializer
TunaIdle ==
    /\ n_arg = -1
    /\ have_hsvr = FALSE
    /\ max_loop = 50
    /\ loop_i = 0
    /\ join_i = 0
    /\ runs = 0
    /\ svr_pid = 0
    /\ svr_state = "none"
    /\ tpc = "idle"

\* the cache layer not loaded
CacheIdle ==
    /\ cache_file = FALSE
    /\ cache = <<>>
    /\ cache_cap = 0
    /\ skip = 0
    /\ trial = <<>>
    /\ flow_status = "none"
    /\ cache_ret = 0

LibIdle == ReadIdle /\ TunaIdle /\ CacheIdle

Init ==
    /\ gen_list = <<>>
    /\ timestep = 0
    /\ num_ready \in UninitInts
    /\ status = "uninit"
    /\ local_url = [EmptyUrl EXCEPT !.path = <<"d">>]
    /\ target_url = EmptyUrl
    /\ reply_url = EmptyUrl
    /\ appname = <<>>
    /\ slave_path = <<>>
    /\ pc = "loop"
    /\ init_file = FALSE
    /\ cand = {}
    /\ cand_away = {}
    /\ stale = {}
    /\ out_local = [k \in OutSteps |-> Absent]
    /\ out_remote = [k \in OutSteps |-> Absent]
    /\ children = [p \in Pids |-> FALSE]
    /\ files_sent = 0
    /\ last_exit = "none"
    /\ read_ret = 0
    /\ last_scp = "none"
    /\ init_ret = "none"
    /\ started = FALSE
    /\ ParseIdle
    /\ UrlIdle
    /\ WorkerIdle
    /\ LibIdle

Next ==
    \/ PollReap
    \/ InitSession
    \/ Dispatch
    \/ BlockingWait
    \/ BlockingWaitNoChild
    \/ ServerInit
    \/ ServerPoint

Spec == Init /\ [][Next]_vars

(***************************************************************************)
(* One call of parse_slave_list on a bounded set of host-specs             *)
(***************************************************************************)
MaxEntries == 2     \* entries of a host-spec

\* the texts an entry of the host-spec may be
EntryForms ==
    { <<"a", " ", "2">>,            \* "a 2"
      <<"b", " ", "1">>,            \* "b 1"
      <<" ", "a", " ", "1", " ">>,  \* " a 1 "
      <<"a", " ", "0">>,            \* "a 0"
      <<"a", " ", "-", "2">>,       \* "a -2"
      <<"a", " ", "-", "1">>,       \* "a -1"
      <<"a">>,                      \* "a"
      <<"a", " ">>,                 \* "a "
      <<"a", " ", "1", "x">>,       \* "a 1x"
      <<"a", " ", "1", " ", "b">>,  \* "a 1 b"
      <<" ">>,                      \* " "
      <<>> }                        \* ""

RECURSIVE SpecsOf(_)
SpecsOf(n) ==
    IF n = 1 THEN EntryForms
    ELSE LET shorter == SpecsOf(n - 1)
         IN  shorter \cup {s \o <<",">> \o e : s \in shorter, e \in EntryForms}

HostSpecs == SpecsOf(MaxEntries) \cup {NullPtr}

\* registries the coordinator may hold when codeserver_init calls the parser:
\* none yet, an idle one, and one with a worker running in its first slot
PriorRegistries ==
    LET idle == SlotsOf(<<"a">>, 2)
    IN  { <<>>, idle,
          [idle EXCEPT ![1].pid = 1, ![1].mesg = Envelope(<<"p0">>)] }

InitParse ==
    /\ gen_list \in PriorRegistries
    /\ gen_before = gen_list
    /\ hostlist \in HostSpecs
    /\ junk \in Junks
    /\ einval \in BOOLEAN
    /\ parse_ret = 0
    /\ ppc = "call"
    /\ UrlIdle
    /\ WorkerIdle
    /\ LibIdle
    /\ timestep = 0
    /\ num_ready = 0
    /\ status = "uninit"
    /\ local_url = [EmptyUrl EXCEPT !.path = <<"d">>]
    /\ target_url = EmptyUrl
    /\ reply_url = EmptyUrl
    /\ appname = <<>>
    /\ slave_path = <<>>
    /\ pc = "loop"
    /\ init_file = FALSE
    /\ cand = {}
    /\ cand_away = {}
    /\ stale = {}
    /\ out_local = [k \in OutSteps |-> Absent]
    /\ out_remote = [k \in OutSteps |-> Absent]
    /\ children = [p \in Pids |-> FALSE]
    /\ files_sent = 0
    /\ last_exit = "none"
    /\ read_ret = 0
    /\ last_scp = "none"
    /\ init_ret = "none"
    /\ started = FALSE

\* parse_slave_list(hostlist)
ParseCall ==
    /\ ppc = "call"
    /\ \E ps \in {ParseSlaveList(hostlist, junk, einval, gen_list)} :
         /\ gen_list' = ps.list
         /\ parse_ret' = ps.ret
    /\ ppc' = "done"
    /\ UNCHANGED <<mainVars, worldVars, hostlist, junk, einval, gen_before,
                   urlVars, workerVars, libVars>>

NextParse == ParseCall

SpecParse == InitParse /\ [][NextParse]_vars

(***************************************************************************)
(* Properties of parse_slave_list (SpecParse)                              *)
(***************************************************************************)
ParseFailed == ppc = "done" /\ parse_ret = -1

\* C9: when parse_slave_list returns an error for a host-spec it was given,
\* the registry is empty afterwards, whatever it held before the call; only
\* the call with no host-spec at all (a null pointer) returns its error with
\* the registry as it was.
C9_ErrorEmptiesRegistry ==
    ParseFailed =>
        IF hostlist = NullPtr THEN gen_list = gen_before ELSE gen_list = <<>>

\* a malformed second entry after a prior registry with a running worker:
\* the error is returned and the prior slots are gone
C9_Witness ==
    /\ ParseFailed
    /\ hostlist = <<"a", " ", "2", ",", "a">>
    /\ Len(gen_before) = 2
    /\ gen_before[1].pid # 0
    /\ gen_list = <<>>

\* C9 as stated: an error return leaves the registry identical to the
\* registry before the call
C9_ErrorLeavesRegistryUnchanged == ParseFailed => gen_list = gen_before

\* ---- the grammar of the host-spec, read off the text of hostlist
\* the entries of a host-spec: the texts between its commas
RECURSIVE EntriesFrom(_, _, _)
EntriesFrom(str, p, cur) ==
    IF p > Len(str) THEN <<cur>>
    ELSE IF str[p] = "," THEN <<cur>> \o EntriesFrom(str, p + 1, <<>>)
    ELSE EntriesFrom(str, p + 1, Append(cur, str[p]))

EntriesOf(str) == IF str = <<>> THEN <<>> ELSE EntriesFrom(str, 1, <<>>)

\* the whitespace-delimited words of an entry
RECURSIVE WordsFrom(_, _, _)
WordsFrom(e, p, cur) ==
    LET done == IF cur = <<>> THEN <<>> ELSE <<cur>>
    IN  IF p > Len(e) THEN done
        ELSE IF IsSpace(e[p]) THEN done \o WordsFrom(e, p + 1, <<>>)
        ELSE WordsFrom(e, p + 1, Append(cur, e[p]))

WordsOf(e) == WordsFrom(e, 1, <<>>)

IsDecimal(w) == w # <<>> /\ \A i \in 1..Len(w) : DigitVal(w[i]) < 10

AllZero(w) == \A i \in 1..Len(w) : w[i] = "0"

EmptyHost(e) == WordsOf(e) = <<>>

MissingCount(e) == Len(WordsOf(e)) = 1

ZeroOrNegativeCount(e) ==
    /\ Len(WordsOf(e)) >= 2
    /\ LET w == WordsOf(e)[2]
       IN  \/ IsDecimal(w) /\ AllZero(w)
           \/ w[1] = "-" /\ IsDecimal(Tail(w))

TrailingCharacters(e) ==
    \/ Len(WordsOf(e)) >= 3
    \/ /\ Len(WordsOf(e)) = 2
       /\ LET w == WordsOf(e)[2]
          IN  DigitVal(w[1]) < 10 /\ ~IsDecimal(w)

MalformedEntry(e) ==
    EmptyHost(e) \/ MissingCount(e) \/ ZeroOrNegativeCount(e)
        \/ TrailingCharacters(e)

\* C10: parse_slave_list returns an error for every host-spec that has an
\* entry with an empty host, a missing count, a zero or negative count, or
\* trailing characters before the next comma.
C10_MalformedEntryRejected ==
    (/\ ppc = "done"
     /\ hostlist # NullPtr
     /\ \E i \in 1..Len(EntriesOf(hostlist)) :
            MalformedEntry(EntriesOf(hostlist)[i]))
        => parse_ret = -1

(***************************************************************************)
(* Properties of the coordinator (Spec)                                    *)
(***************************************************************************)
\* every slot of a non-empty registry holds a worker's pid
Saturated ==
    Len(gen_list) > 0 /\ \A i \in 1..Len(gen_list) : gen_list[i].pid # 0

\* the step leaves every slot's pid as it was
SamePids ==
    /\ Len(gen_list') = Len(gen_list)
    /\ \A i \in 1..Len(gen_list) : gen_list'[i].pid = gen_list[i].pid

\* the step is slave_complete freeing slot i
SlotReaped(i) ==
    /\ Len(gen_list') = Len(gen_list)
    /\ gen_list[i].pid # 0
    /\ gen_list'[i].pid = 0
    /\ children[gen_list[i].pid]
    /\ ~children'[gen_list[i].pid]

\* the step is main working off the initialization file
InitStep == init_file /\ ~init_file'

\* the step is waitpid returning a child
ChildReaped == \E p \in Pids : children[p] /\ ~children'[p]

\* the step is main taking candidate.<timestep> to a slot
DispatchStep ==
    /\ pc = "loop"
    /\ ~init_file
    /\ timestep \in cand
    /\ files_sent' = files_sent
    /\ pc' # "abort"

\* C1: at every reachable state no two slots of the registry hold the same
\* non-idle process id.
C1_DistinctPids ==
    \A i, j \in 1..Len(gen_list) :
        (i # j /\ gen_list[i].pid # 0) => gen_list[i].pid # gen_list[j].pid

\* two workers run at once, each in its own slot
C1_Witness ==
    /\ Len(gen_list) = 2
    /\ gen_list[1].pid # 0
    /\ gen_list[2].pid # 0
    /\ children[gen_list[1].pid]
    /\ children[gen_list[2].pid]

\* C2: while every slot of the registry is occupied, no step of the
\* coordinator gives a slot a new worker: until the registry is replaced by
\* an initialization, a step either leaves every slot's pid alone or is the
\* reap of exactly one slot, whose pid becomes idle.
C2_NoAssignWhileSaturated ==
    [][(Saturated /\ ~InitStep) =>
          \/ SamePids
          \/ \E i \in 1..Len(gen_list) :
                /\ SlotReaped(i)
                /\ \A j \in 1..Len(gen_list) :
                      j # i => gen_list'[j] = gen_list[j]]_vars

\* the second dispatch of a two-slot session has filled the registry and
\* main sits in the blocking waitpid
C2_Witness ==
    /\ Saturated
    /\ Len(gen_list) = 2
    /\ pc = "wait"
    /\ timestep = 1
    /\ num_ready = 0

\* C3: whenever waitpid returns a child whose status is a failure, in the
\* blocking wait as in the idle poll, the coordinator exits with status 1 and
\* writes no result file.
C3_FailedReapAborts ==
    [][(ChildReaped /\ status' = "fail") =>
          /\ pc' = "exit1"
          /\ out_local' = out_local
          /\ out_remote' = out_remote]_vars

\* C4: when the generation command of a reaped worker had returned nonzero,
\* the coordinator exits with status 1.
C4_CommandFailureAborts ==
    [][(ChildReaped /\ last_exit' = "cmd_fail") => pc' = "exit1"]_vars

\* C5: the step counter changes only by +1, once for each dispatched point,
\* or to 0 at an initialization that succeeds; each dispatch takes
\* candidate.<timestep>, records that step on the slot, and the file is
\* removed when the counter moves on.
C5_StepOrder ==
    [][/\ DispatchStep =>
            /\ \E i \in 1..Len(gen_list) :
                  /\ gen_list[i].pid = 0
                  /\ gen_list'[i].step = timestep
                  /\ \A j \in 1..Len(gen_list) :
                        j # i => gen_list'[j] = gen_list[j]
            /\ \/ timestep' = timestep + 1
               \/ timestep' = timestep /\ pc' = "wait"
       /\ (pc = "wait" /\ pc' = "loop") => timestep' = timestep + 1
       /\ timestep' # timestep =>
            \/ /\ timestep' = timestep + 1
               /\ DispatchStep \/ pc = "wait"
               /\ timestep \in cand
               /\ timestep \notin cand'
            \/ /\ timestep' = 0
               /\ InitStep
               /\ num_ready' = Len(gen_list')]_vars

\* two points of one session have been dispatched and worked off in order
C5_Witness ==
    /\ timestep = 2
    /\ pc = "loop"
    /\ Len(gen_list) > 0
    /\ read_ret = 0
    /\ {0, 1} \cap cand = {}

\* C6: when mesg_read fails on the point file of the current step, the
\* dispatch launches no worker and marks no slot busy.
C6_DecodeFailureLaunchesNothing ==
    [][(DispatchStep /\ read_ret' = -1) =>
          (children' = children /\ SamePids)]_vars

\* C7: when the scp of a result file fails, the coordinator goes on and the
\* local file code_complete.<step> still exists.
C7_CopyFailureKeepsLocal ==
    [][\A i \in 1..Len(gen_list) :
          (~InitStep /\ SlotReaped(i) /\ last_scp' = "fail") =>
              /\ pc' \in {"loop", "wait"}
              /\ out_local'[gen_list[i].step] # Absent]_vars

\* C8: after a slot's result was published (mesg_write returned 0): with a
\* reply host, the local code_complete.<step> is gone and the remote one holds
\* exactly the message's bytes; without one, the local file exists.
C8_PublishPlacesResult ==
    [][\A i \in 1..Len(gen_list) :
          (~InitStep /\ SlotReaped(i)) =>
              LET s   == gen_list[i].step
                  env == SubSeq(gen_list[i].mesg, 1, gen_list[i].mesg[2])
              IN  IF reply_url.host # <<>>
                  THEN out_local'[s] = Absent /\ out_remote'[s] = env
                  ELSE out_local'[s] # Absent]_vars

(***************************************************************************)
(* More properties of parse_slave_list (SpecParse)                         *)
(***************************************************************************)
\* the value of a decimal numeral
RECURSIVE DecValue(_)
DecValue(w) ==
    IF w = <<>> THEN 0
    ELSE 10 * DecValue(SubSeq(w, 1, Len(w) - 1)) + DigitVal(w[Len(w)])

\* an entry "<host> <count>": two words, the second a positive numeral
ValidEntry(e) ==
    /\ Len(WordsOf(e)) = 2
    /\ IsDecimal(WordsOf(e)[2])
    /\ WordsOf(e)[2][1] # "0"

ValidSpec(str) ==
    /\ str # NullPtr
    /\ EntriesOf(str) # <<>>
    /\ \A i \in 1..Len(EntriesOf(str)) : ValidEntry(EntriesOf(str)[i])

\* the slot names <host>_1 .. <host>_<count> of the entries, in order
RECURSIVE NamesOf(_)
NamesOf(entries) ==
    IF entries = <<>> THEN <<>>
    ELSE LET w == WordsOf(Head(entries))
         IN  [i \in 1..DecValue(w[2]) |-> w[1] \o <<"_">> \o DecimalOf(i)]
                 \o NamesOf(Tail(entries))

\* C11: for every valid host-spec the call succeeds and the registry holds,
\* entry by entry in the order of the spec, the slots <host>_1 ..
\* <host>_<count>, as many as the counts add up to, every one idle.
C11_ValidSpecBuildsRegistry ==
    (ppc = "done" /\ ValidSpec(hostlist)) =>
        /\ parse_ret = 0
        /\ Len(gen_list) = Len(NamesOf(EntriesOf(hostlist)))
        /\ \A i \in 1..Len(gen_list) :
              /\ gen_list[i].hostname = NamesOf(EntriesOf(hostlist))[i]
              /\ gen_list[i].pid = 0

\* "a 2,b 1" parsed over a registry with a running worker: a_1, a_2, b_1
C11_Witness ==
    /\ ppc = "done"
    /\ hostlist = <<"a", " ", "2", ",", "b", " ", "1">>
    /\ gen_before # <<>>
    /\ gen_before[1].pid # 0
    /\ Len(gen_list) = 3
    /\ gen_list[3].hostname = <<"b", "_", "1">>

\* the first word of an entry, or the empty string
HostOf(e) == IF WordsOf(e) = <<>> THEN <<>> ELSE WordsOf(e)[1]

\* C12: when the call fails on a host-spec, no slot named after any entry
\* of that host-spec is in the registry afterwards: the slots of the entries
\* before the malformed one are gone.
C12_FailureKeepsNoSlot ==
    (ParseFailed /\ hostlist # NullPtr) =>
        \A k \in 1..Len(EntriesOf(hostlist)) :
            \A i \in 1..Len(gen_list) :
                LET h == HostOf(EntriesOf(hostlist)[k])
                IN  SubSeq(gen_list[i].hostname, 1, Len(h) + 1) # h \o <<"_">>

\* "b 1,a 1x" on no registry: the first entry is fine, the second fails
C12_Witness ==
    /\ ParseFailed
    /\ hostlist = <<"b", " ", "1", ",", "a", " ", "1", "x">>
    /\ gen_before = <<>>
    /\ gen_list = <<>>

(***************************************************************************)
(* Properties of the session bootstrap (Spec)                              *)
(***************************************************************************)
\* the step is main working off a file it found, of either kind
FileStep ==
    /\ pc = "loop"
    /\ files_sent' = files_sent
    /\ init_file \/ timestep \in cand

\* C13: after a bootstrap that failed, the coordinator stays alive whatever
\* file it works off next: it neither aborts nor exits.
C13_FailedBootstrapKeepsRunning ==
    [][(init_ret = "failed" /\ FileStep) => pc' \in {"loop", "wait"}]_vars

\* C14: as long as no bootstrap has succeeded, a bootstrap that failed
\* starts no session: no point file is dispatched to a worker on the registry
\* and endpoints the failed bootstrap left behind.
C14_FailedBootstrapStartsNoSession ==
    [][(~started /\ init_ret = "failed" /\ DispatchStep) =>
          (children' = children /\ SamePids)]_vars

\* the step is codeserver_init taking in a session message of the given name
InitReads(n) == InitStep /\ appname' = <<n>> /\ appname # <<n>>

\* C15: a session whose reply URL is empty or not defined bootstraps
\* successfully.
C15_ReplyIsOptional ==
    [][\A n \in CfgNames :
          (InitReads(n) /\ CfgOf(n).reply \in {NullPtr, <<>>}) =>
              init_ret' = "ok"]_vars

(***************************************************************************)
(* generator_main: the Generator Worker                                    *)
(***************************************************************************)
\* hostname.find("_"): the index of the first underscore, or 0 (npos)
RECURSIVE FindUnderscore(_, _)
FindUnderscore(name, p) ==
    IF p > Len(name) THEN 0
    ELSE IF name[p] = "_" THEN p
    ELSE FindUnderscore(name, p + 1)

\* gen.hostname.substr(0, gen.hostname.find("_"))
GeneratorName(hostname) ==
    IF FindUnderscore(hostname, 1) = 0 THEN hostname
    ELSE SubSeq(hostname, 1, FindUnderscore(hostname, 1) - 1)

\* values_of: the values of the point, up to its end; a value that is not
\* an integer empties the vector and ends the loop
RECURSIVE ValuesFrom(_, _, _)
ValuesFrom(point, i, acc) ==
    IF i > Len(point) THEN acc
    ELSE IF point[i].type # "int" THEN <<>>
    ELSE ValuesFrom(point, i + 1, Append(acc, point[i].v))

values_of(point) == ValuesFrom(point, 1, <<>>)

\* for (i = 0; i < v.size(); i++) ss << v[i] << " ";
RECURSIVE ValuesText(_)
ValuesText(v) ==
    IF v = <<>> THEN <<>>
    ELSE DecimalOf(Head(v)) \o <<" ">> \o ValuesText(Tail(v))

vector_to_bash_array_remote(v) ==
    <<"\\", "\"">> \o ValuesText(v) \o <<"\\", "\"", " ">>

vector_to_bash_array_local(v) == <<"\"">> \o ValuesText(v) \o <<"\"", " ">>

Text_ssh == <<"s", "s", "h", " ">>
Text_exec == <<"e", "x", "e", "c", " ">>
Text_script ==
    <<"/", "c", "h", "i", "l", "l", "_", "s", "c", "r", "i", "p", "t", ".">>
Text_sh == <<".", "s", "h", " ">>

LocalFlagBad(generator_name) == generator_name # local_url.host

\* bool flag = (generator_name == local_url.host);
LocalFlag(generator_name) == generator_name = local_url.host

\* the directory <slave_path>/<gen.hostname>_<appname>
WorkDir(gen) == slave_path \o <<"/">> \o gen.hostname \o <<"_">> \o appname

\* the command line generator_main builds for gen and the point's values
CommandLine(gen, values) ==
    LET generator_name == GeneratorName(gen.hostname)
        flag == LocalFlag(generator_name)
    IN  (IF ~flag THEN Text_ssh \o generator_name \o <<" ">> ELSE <<>>)
        \o Text_exec \o WorkDir(gen) \o Text_script \o appname \o Text_sh
        \o (IF flag THEN vector_to_bash_array_local(values)
                    ELSE vector_to_bash_array_remote(values))
        \o generator_name \o <<" ">>
        \o WorkDir(gen) \o <<" ">>
        \o target_url.host \o <<" ">>
        \o target_url.path

\* what system() may return
SysReturns == {0, 1}

\* exit(0), whatever sys_return is
ExitCode(sys_return) == 0

\* the points a candidate message may carry: values with their types
WorkerPoints ==
    { <<>>,
      <<[type |-> "int", v |-> 3]>>,
      <<[type |-> "int", v |-> 1], [type |-> "int", v |-> 20]>>,
      <<[type |-> "int", v |-> 1], [type |-> "real", v |-> 2]>>,
      <<[type |-> "enum", v |-> 0]>> }

\* slot names as parse_slave_list makes them, for the hosts a, b and a_b
WorkerSlots ==
    {SlotsOf(<<"a">>, 2)[i] : i \in 1..2}
        \cup {SlotsOf(<<"b">>, 1)[1], SlotsOf(<<"a", "_", "b">>, 1)[1]}

\* local_url.host: empty after a dir:// URL, the host after an ssh:// one
LocalHosts == {<<>>, <<"a">>, <<"b">>}

\* the coordinator's files and children, not looked at by the small
\* specifications
WorldIdle ==
    /\ init_file = FALSE
    /\ cand = {}
    /\ cand_away = {}
    /\ stale = {}
    /\ out_local = [k \in OutSteps |-> Absent]
    /\ out_remote = [k \in OutSteps |-> Absent]
    /\ children = [p \in Pids |-> FALSE]
    /\ files_sent = 0
    /\ last_exit = "none"
    /\ read_ret = 0
    /\ last_scp = "none"
    /\ init_ret = "none"
    /\ started = FALSE

InitWorker ==
    /\ w_gen \in WorkerSlots
    /\ w_point \in WorkerPoints
    /\ w_cmd = <<>>
    /\ w_sys = 0
    /\ w_exit = 0
    /\ wpc = "start"
    /\ \E h \in LocalHosts : local_url = [EmptyUrl EXCEPT !.path = <<"d">>,
                                                        !.host = h]
    /\ target_url = [EmptyUrl EXCEPT !.host = <<"t">>, !.path = <<"p">>]
    /\ reply_url = EmptyUrl
    /\ appname = <<"x">>
    /\ slave_path = <<"w">>
    /\ gen_list = <<w_gen>>
    /\ timestep = 0
    /\ num_ready = 0
    /\ status = "uninit"
    /\ pc = "loop"
    /\ WorldIdle
    /\ ParseIdle
    /\ UrlIdle
    /\ LibIdle

\* generator_main up to the return of system()
WorkerRun ==
    /\ wpc = "start"
    /\ w_cmd' = CommandLine(w_gen, values_of(w_point))
    /\ w_sys' \in SysReturns
    /\ wpc' = "ran"
    /\ UNCHANGED <<gen_list, mainVars, worldVars, parseVars, urlVars, libVars,
                   w_gen, w_point, w_exit>>

\* the rest of generator_main: exit(0)
WorkerExit ==
    /\ wpc = "ran"
    /\ w_exit' = ExitCode(w_sys)
    /\ wpc' = "exited"
    /\ UNCHANGED <<gen_list, mainVars, worldVars, parseVars, urlVars, libVars,
                   w_gen, w_point, w_cmd, w_sys>>

NextWorker == WorkerRun \/ WorkerExit

SpecWorker == InitWorker /\ [][NextWorker]_vars

(***************************************************************************)
(* Properties of the Generator Worker (SpecWorker)                         *)
(***************************************************************************)
StartsWith(str, prefix) ==
    Len(str) >= Len(prefix) /\ SubSeq(str, 1, Len(prefix)) = prefix

\* the slot name up to its first underscore
LogicalHost(name) ==
    IF \E i \in 1..Len(name) : name[i] = "_"
    THEN SubSeq(name, 1,
                (CHOOSE i \in 1..Len(name) :
                    name[i] = "_" /\ \A j \in 1..(i - 1) : name[j] # "_") - 1)
    ELSE name

\* the array argument is quoted for the local shell: no backslash anywhere
LocalForm(cmd) ==
    /\ StartsWith(cmd, Text_exec)
    /\ \A i \in 1..Len(cmd) : cmd[i] # "\\"

\* ssh <host> in front, the array's quotes escaped for the remote shell
RemoteForm(cmd, host) ==
    /\ StartsWith(cmd, Text_ssh \o host \o <<" ">> \o Text_exec)
    /\ Cardinality({i \in 1..(Len(cmd) - 1) :
                        cmd[i] = "\\" /\ cmd[i + 1] = "\""}) = 2

\* C16: the worker builds the local form of the command exactly when the
\* slot name up to its first underscore equals local_url.host, and the
\* remote form, through ssh to that name, for every other slot.
C16_LocalOrRemoteForm ==
    wpc \in {"ran", "exited"} =>
        IF LogicalHost(w_gen.hostname) = local_url.host
        THEN LocalForm(w_cmd)
        ELSE RemoteForm(w_cmd, LogicalHost(w_gen.hostname))

\* slot a_2 with local_url.host = "a": the command was run without ssh
C16_Witness ==
    /\ wpc = "ran"
    /\ w_gen.hostname = <<"a", "_", "2">>
    /\ local_url.host = <<"a">>
    /\ LocalForm(w_cmd)
    /\ Len(values_of(w_point)) = 2

(***************************************************************************)
(* Calls of url_parse on one descriptor (SpecUrl)                          *)
(***************************************************************************)
MaxParses == 3      \* calls of url_parse on the descriptor

UrlInputs ==
    { <<"d", "i", "r", ":", "/", "/", "d">>,    \* "dir://d"
      <<"s", "s", "h", ":", "/", "/", "h", "/", "p">>,    \* "ssh://h/p"
      <<"s", "s", "h", ":", "/", "/", "u", "@", "h", "/", "p">>,    \* "ssh://u@h/p"
      <<"s", "s", "h", ":", "/", "/", "h", ":", "1", "/", "p">>,    \* "ssh://h:1/p"
      <<"s", "s", "h", ":", "/", "/", "u", "@", "h", ":", "1", "/", "p">>,    \* "ssh://u@h:1/p"
      <<"s", "s", "h", ":", "/", "/", "/", "p">>,    \* "ssh:///p"
      <<"s", "s", "h", ":", "/", "/", "h">>,    \* "ssh://h"
      <<"t", "c", "p", ":", "/", "/", "h", "/", "p">>,    \* "tcp://h/p"
      <<"f", "t", "p", ":", "/", "/", "h", "/", "p">>,    \* "ftp://h/p"
      <<"h", "/", "p">>,    \* "h/p"
      <<"s", "s", "h", ":", "/", "/", "g", "/", "q">>,    \* "ssh://g/q"
      <<"d", "i", "r", ":", "/", "/">>,    \* "dir://"
      <<"/", "/", "x">>,    \* "//x"
      <<>> }    \* ""

\* the coordinator's own state, not looked at by SpecUrl
MainIdle ==
    /\ gen_list = <<>>
    /\ timestep = 0
    /\ num_ready = 0
    /\ status = "uninit"
    /\ local_url = [EmptyUrl EXCEPT !.path = <<"d">>]
    /\ target_url = EmptyUrl
    /\ reply_url = EmptyUrl
    /\ appname = <<>>
    /\ slave_path = <<>>
    /\ pc = "loop"

InitUrl ==
    /\ UrlIdle
    /\ MainIdle
    /\ WorldIdle
    /\ ParseIdle
    /\ WorkerIdle
    /\ LibIdle

\* url_parse(str, url) on the descriptor as the calls before left it
UrlCall ==
    /\ url_calls < MaxParses
    /\ \E str \in UrlInputs :
         \E r \in {UrlParse(str, url_out)} :
             /\ url_str' = str
             /\ url_out' = r.url
             /\ url_ret' = r.ret
             /\ url_failed' = (url_failed \/ r.ret < 0)
    /\ url_calls' = url_calls + 1
    /\ UNCHANGED <<gen_list, mainVars, worldVars, parseVars, workerVars,
                   libVars>>

NextUrl == UrlCall

SpecUrl == InitUrl /\ [][NextUrl]_vars

(***************************************************************************)
(* Properties of url_parse (SpecUrl)                                       *)
(***************************************************************************)
\* ---- ssh://[user@]host[:port]/path, read off the text of the URI
\* the index of the first c in str from index p on, or 0
FirstAt(str, p, c) ==
    IF \E i \in p..Len(str) : str[i] = c
    THEN CHOOSE i \in p..Len(str) :
            str[i] = c /\ \A j \in p..(i - 1) : str[j] # c
    ELSE 0

\* the text between "ssh://" and the first '/' after it
Authority(str) == SubSeq(str, 7, FirstAt(str, 7, "/") - 1)

\* the authority without "user@"
HostPort(str) ==
    LET a == Authority(str)
    IN  IF FirstAt(a, 1, "@") = 0 THEN a
        ELSE SubSeq(a, FirstAt(a, 1, "@") + 1, Len(a))

SshUser(str) ==
    LET a == Authority(str)
    IN  IF FirstAt(a, 1, "@") = 0 THEN <<>>
        ELSE SubSeq(a, 1, FirstAt(a, 1, "@") - 1)

SshHost(str) ==
    LET hp == HostPort(str)
    IN  IF FirstAt(hp, 1, ":") = 0 THEN hp
        ELSE SubSeq(hp, 1, FirstAt(hp, 1, ":") - 1)

SshPort(str) ==
    LET hp == HostPort(str)
    IN  IF FirstAt(hp, 1, ":") = 0 THEN <<>>
        ELSE SubSeq(hp, FirstAt(hp, 1, ":") + 1, Len(hp))

SshPath(str) == SubSeq(str, FirstAt(str, 7, "/") + 1, Len(str))

\* str is ssh://[user@]host[:port]/path with a host
SshUri(str) ==
    /\ StartsWith(str, SchemeSsh)
    /\ FirstAt(str, 7, "/") # 0
    /\ SshHost(str) # <<>>

\* C17: for every ssh://[user@]host[:port]/path the call succeeds with
\* user, host, port and path as the URI spells them.
C17_SshFields ==
    (url_calls > 0 /\ SshUri(url_str)) =>
        /\ url_ret = 0
        /\ url_out.user = SshUser(url_str)
        /\ url_out.host = SshHost(url_str)
        /\ url_out.port = SshPort(url_str)
        /\ url_out.path = SshPath(url_str)

\* C18: a call succeeds only on a string that starts with dir:// or ssh://;
\* tcp://, any other scheme and a string without "//" return -1.
C18_OnlyDirAndSsh ==
    (url_calls > 0 /\ url_ret = 0) =>
        StartsWith(url_str, SchemeDir) \/ StartsWith(url_str, SchemeSsh)

\* tcp://h/p was given and refused
C18_Witness ==
    /\ url_calls > 0
    /\ url_str = <<"t", "c", "p", ":", "/", "/", "h", "/", "p">>
    /\ url_ret = -1

\* C19: after calls that all succeeded, a descriptor whose latest URI was
\* dir:// has empty host, user and port.
C19_DirHasNoHostUserPort ==
    (url_calls > 0 /\ ~url_failed /\ StartsWith(url_str, SchemeDir)) =>
        /\ url_out.host = <<>>
        /\ url_out.user = <<>>
        /\ url_out.port = <<>>

\* C20: an ssh:// URI with an empty host, or with no '/' after the
\* authority, is refused.
C20_SshNeedsHostAndPath ==
    (/\ url_calls > 0
     /\ StartsWith(url_str, SchemeSsh)
     /\ FirstAt(url_str, 7, "/") = 0 \/ SshHost(url_str) = <<>>)
        => url_ret = -1

(***************************************************************************)
(* More properties of the coordinator (Spec)                               *)
(***************************************************************************)
\* code_complete.<s> exists, locally or at the reply endpoint
Published(s) == out_local[s] # Absent \/ out_remote[s] # Absent

\* the registry of the running session has one slot
OneSlotSession == init_ret = "ok" /\ Len(gen_list) = 1

\* C21: with a one-slot registry, when the point of step s+1 is dispatched
\* the result file code_complete.<s> has been published.
C21_ResultBeforeNextDispatch ==
    [][(OneSlotSession /\ DispatchStep /\ timestep > 0) =>
          Published(timestep - 1)]_vars

\* the step is waitpid returning a child that no slot of the registry holds:
\* a worker launched before the registry was rebuilt
OrphanReaped ==
    \E p \in Pids :
        /\ children[p]
        /\ ~children'[p]
        /\ \A i \in 1..Len(gen_list) : gen_list[i].pid # p

\* C22: the exit of a worker launched under a superseded session has no
\* effect on the new session: no result file is written, no slot changes,
\* num_ready is not incremented and the coordinator keeps running.
C22_OrphanExitHasNoEffect ==
    [][(init_ret = "ok" /\ OrphanReaped) =>
          /\ gen_list' = gen_list
          /\ out_local' = out_local
          /\ out_remote' = out_remote
          /\ num_ready' = num_ready
          /\ pc' \in {"loop", "wait"}]_vars

(***************************************************************************)
(* One call of mesg_read (SpecRead)                                        *)
(***************************************************************************)
MaxPayload == 2     \* cells of a message's payload

Cells == {"x", "y"}

\* the payloads of up to n cells
PayloadsOf(n) == UNION {[1..k -> Cells] : k \in 0..n}

Prefixes(f) == {SubSeq(f, 1, k) : k \in 0..Len(f)}

\* the files mesg_read may find: a whole message, one cut short at any cell,
\* one with another magic, one followed by more bytes, or none
ReadFiles ==
    {Absent}
        \cup UNION {Prefixes(Envelope(p)) : p \in PayloadsOf(MaxPayload)}
        \cup {<<"NOT_MAGIC">> \o Tail(Envelope(p)) : p \in PayloadsOf(MaxPayload)}
        \cup {Envelope(p) \o <<"x">> : p \in PayloadsOf(MaxPayload)}

\* msg->buf before the call: never allocated, or holding an earlier message
ReadBufs == {NoBuf, Envelope(<<"y">>)}

InitRead ==
    /\ rd_file \in ReadFiles
    /\ rd_buf \in ReadBufs
    /\ rd_msg = rd_buf
    /\ rd_ret = 0
    /\ rpc = "call"
    /\ MainIdle
    /\ WorldIdle
    /\ ParseIdle
    /\ UrlIdle
    /\ WorkerIdle
    /\ TunaIdle
    /\ CacheIdle

\* mesg_read(filename, msg)
ReadCall ==
    /\ rpc = "call"
    /\ \E rd \in {MesgRead(rd_file, rd_buf)} :
         /\ rd_ret' = rd.ret
         /\ rd_msg' = rd.buf
    /\ rpc' = "done"
    /\ UNCHANGED <<gen_list, mainVars, worldVars, parseVars, urlVars,
                   workerVars, tunaVars, cacheVars, rd_file, rd_buf>>

NextRead == ReadCall

SpecRead == InitRead /\ [][NextRead]_vars

(***************************************************************************)
(* Properties of mesg_read (SpecRead)                                      *)
(***************************************************************************)
\* the file's magic number is not the protocol's
WrongMagic(f) == f # Absent /\ Len(f) >= 1 /\ f[1] # Magic

\* the file holds fewer bytes than its header declares
ShortOfDeclared(f) == f # Absent /\ Len(f) >= HdrLen /\ Len(f) < f[2]

\* C23: mesg_read on a file whose magic number is not the protocol's, or
\* that holds fewer bytes than its header declares, returns -1.
C23_BadFileFailsToDecode ==
    (rpc = "done" /\ (WrongMagic(rd_file) \/ ShortOfDeclared(rd_file)))
        => rd_ret = -1

\* a whole message under another magic has been refused
C23_Witness ==
    /\ rpc = "done"
    /\ rd_ret = -1
    /\ WrongMagic(rd_file)
    /\ Len(rd_file) = rd_file[2]

(***************************************************************************)
(* One run of tuna (SpecTuna): src/build/tuna.c, main from parseArgs on    *)
(***************************************************************************)
MaxRuns == 3        \* launches of the child program in one run of tuna

NoArg == -1
IntMax == 2147483647
DefaultMaxLoop == 50

\* the numbers -n may carry: strtoul takes them without an error
NArgs == (0..MaxRuns) \cup {IntMax}

\* max_loop = strtoul(arg, &arg, 0): an unsigned long stored in an unsigned
\* int, which keeps every value below 2^32; NArgs has no other
MaxLoopOf(n) == n

\* max_loop <= 0 || i < max_loop
LoopGuard(i) == max_loop <= 0 \/ i < max_loop

\* the variables of the coordinator and of the other calls
notTuna == <<gen_list, mainVars, worldVars, parseVars, urlVars, workerVars,
             readVars, cacheVars>>

InitTuna ==
    /\ n_arg \in NArgs \cup {NoArg}
    /\ have_hsvr \in BOOLEAN
    /\ max_loop = DefaultMaxLoop
    /\ loop_i = 0
    /\ join_i = 0
    /\ runs = 0
    /\ svr_pid = 0
    /\ svr_state = "none"
    /\ tpc = "start"
    /\ MainIdle
    /\ WorldIdle
    /\ ParseIdle
    /\ UrlIdle
    /\ WorkerIdle
    /\ ReadIdle
    /\ CacheIdle

\* parseArgs: -n=<num> sets max_loop
TunaParseArgs ==
    /\ tpc = "start"
    /\ max_loop' = IF n_arg = NoArg THEN max_loop ELSE MaxLoopOf(n_arg)
    /\ tpc' = "server"
    /\ UNCHANGED <<n_arg, have_hsvr, loop_i, join_i, runs, svr_pid, svr_state,
                   notTuna>>

\* launch_silent of the hserver, when one was found
TunaLaunchServer ==
    /\ tpc = "server"
    /\ IF have_hsvr
       THEN \E forked \in BOOLEAN :
              IF forked
              THEN /\ svr_pid' = 1
                   /\ svr_state' = "running"
                   /\ tpc' = "launch"
              ELSE /\ svr_pid' = -1
                   /\ svr_state' = svr_state
                   /\ tpc' = "returned"        \* return -1
       ELSE /\ tpc' = "launch"
            /\ UNCHANGED <<svr_pid, svr_state>>
    /\ UNCHANGED <<n_arg, have_hsvr, max_loop, loop_i, join_i, runs, notTuna>>

\* hsession_launch
TunaSessionLaunch ==
    /\ tpc = "launch"
    /\ \E ok \in BOOLEAN : tpc' = IF ok THEN "join" ELSE "cleanup"
    /\ UNCHANGED <<n_arg, have_hsvr, max_loop, loop_i, join_i, runs, svr_pid,
                   svr_state, notTuna>>

\* one turn of the join loop: harmony_join, up to three times
TunaJoin ==
    /\ tpc = "join"
    /\ IF join_i = 3
       THEN /\ tpc' = "returned"               \* return -1
            /\ join_i' = join_i
       ELSE \E ok \in BOOLEAN :
              IF ok THEN tpc' = "loop" /\ join_i' = join_i
              ELSE tpc' = "join" /\ join_i' = join_i + 1
    /\ UNCHANGED <<n_arg, have_hsvr, max_loop, loop_i, runs, svr_pid,
                   svr_state, notTuna>>

\* how one turn of the tuning loop may go (a failing gettimeofday leaves the
\* loop as a failing fetch does before the launch, and as a failing report
\* does after it)
TurnOutcomes ==
    {"fetch_failed", "popen_failed", "server_died", "wait_failed",
     "report_failed", "converged", "again"}

\* the child program was launched in a turn that went this way
Launched(o) == o \notin {"fetch_failed", "popen_failed"}

\* one turn of the tuning loop, or its end
TunaTurn ==
    /\ tpc = "loop"
    /\ IF ~LoopGuard(loop_i)
       THEN /\ tpc' = "cleanup"                \* harmony_leave
            /\ UNCHANGED <<loop_i, runs, svr_state>>
       ELSE /\ runs < MaxRuns
            /\ \E o \in TurnOutcomes :
                 /\ o = "server_died" => svr_state = "running"
                 /\ runs' = IF Launched(o) THEN runs + 1 ELSE runs
                 /\ svr_state' = IF o = "server_died" THEN "dead" ELSE svr_state
                 /\ loop_i' = IF o = "again" THEN loop_i + 1 ELSE loop_i
                 /\ tpc' = CASE o = "again" -> "loop"
                             [] o = "server_died" -> "exited"   \* exit(-1)
                             [] OTHER -> "cleanup"
    /\ UNCHANGED <<n_arg, have_hsvr, max_loop, join_i, svr_pid, notTuna>>

\* cleanup: kill(svr_pid, SIGKILL) when svr_pid is set; return 0
TunaCleanup ==
    /\ tpc = "cleanup"
    /\ svr_state' = IF svr_pid # 0 /\ svr_state = "running" THEN "killed"
                    ELSE svr_state
    /\ tpc' = "returned"
    /\ UNCHANGED <<n_arg, have_hsvr, max_loop, loop_i, join_i, runs, svr_pid,
                   notTuna>>

NextTuna ==
    \/ TunaParseArgs
    \/ TunaLaunchServer
    \/ TunaSessionLaunch
    \/ TunaJoin
    \/ TunaTurn
    \/ TunaCleanup

SpecTuna == InitTuna /\ [][NextTuna]_vars

(***************************************************************************)
(* Properties of tuna (SpecTuna)                                           *)
(***************************************************************************)
\* C24: tuna launched with -n=<num> launches the child program at most <num>
\* times, whatever number the option takes, 0 included.
C24_AtMostNumRuns == n_arg # NoArg => runs <= n_arg

(***************************************************************************)
(* The point cache layer (SpecCache): src/src/plugins/layers/cache.c       *)
(***************************************************************************)
MaxTrials == 2      \* trials in the workflow at once

TrialIds == 1..MaxTrials

IntVal(i) == [type |-> "HVAL_INT", v |-> i]
RealVal(r) == [type |-> "HVAL_REAL", v |-> r]
StrVal(c) == [type |-> "HVAL_STR", v |-> c]

\* the points the strategy may generate: values of the session's ranges
CachePoints ==
    { <<IntVal(1)>>, <<RealVal(1)>>, <<StrVal("s")>>, <<IntVal(1), IntVal(2)>> }

\* the performance values a client may report
Perfs == {10, 20}

\* the cache after cache_init: empty, or what load_logger_file read
LoadedCache(file) ==
    IF file THEN <<[point |-> <<IntVal(1)>>, perf |-> 10]>> ELSE <<>>

pt_equivBad(a, b) == Len(a) = Len(b)

\* pt_equiv(a, b): 1 (TRUE) or 0 (FALSE)
pt_equiv(a, b) ==
    /\ Len(a) = Len(b)
    /\ \A i \in 1..Len(a) :
         /\ a[i].type = b[i].type
         /\ CASE a[i].type = "HVAL_INT"  -> a[i].v = b[i].v
              [] a[i].type = "HVAL_REAL" -> ~(a[i].v < b[i].v \/ a[i].v > b[i].v)
              [] a[i].type = "HVAL_STR"  -> a[i].v = b[i].v
              [] OTHER -> FALSE

\* the first i with pt_equiv(point, cache[i].point), or 0
CacheFind(point) ==
    IF \E i \in 1..Len(cache) : pt_equiv(point, cache[i].point)
    THEN CHOOSE i \in 1..Len(cache) :
            /\ pt_equiv(point, cache[i].point)
            /\ \A j \in 1..(i - 1) : ~pt_equiv(point, cache[j].point)
    ELSE 0

\* array_grow(&cache, &cache_cap, ...) when it succeeds: room for at least
\* one more element
GrowTo(cap) == cap + 1

\* a trial not yet generated, and one that has left the workflow
NewTrial == [phase |-> "new", point |-> <<>>, perf |-> 0, status |-> "none"]
DoneTrial == [phase |-> "done", point |-> <<>>, perf |-> 0, status |-> "none"]

notCache == <<gen_list, mainVars, worldVars, parseVars, urlVars, workerVars,
              readVars, tunaVars>>

InitCache ==
    /\ cache_file \in BOOLEAN
    /\ cache = LoadedCache(cache_file)
    /\ cache_cap = Len(cache)
    /\ skip = 0
    /\ trial = [t \in TrialIds |-> NewTrial]
    /\ flow_status = "none"
    /\ cache_ret = 0
    /\ MainIdle
    /\ WorldIdle
    /\ ParseIdle
    /\ UrlIdle
    /\ WorkerIdle
    /\ ReadIdle
    /\ TunaIdle

\* cache_generate(flow, trial) on a point the strategy has just generated
CacheGenerate(t) ==
    /\ trial[t].phase = "new"
    /\ \E point \in CachePoints :
         \E i \in {CacheFind(point)} :
            IF i # 0
            THEN /\ trial' = [trial EXCEPT ![t] =
                                [phase |-> "out", point |-> point,
                                 perf |-> cache[i].perf,
                                 status |-> "HFLOW_RETURN"]]
                 /\ flow_status' = "HFLOW_RETURN"
                 /\ skip' = 1
            ELSE /\ trial' = [trial EXCEPT ![t] =
                                [phase |-> "out", point |-> point,
                                 perf |-> trial[t].perf,
                                 status |-> "HFLOW_ACCEPT"]]
                 /\ flow_status' = "HFLOW_ACCEPT"
                 /\ skip' = skip
    /\ cache_ret' = 0
    /\ UNCHANGED <<cache_file, cache, cache_cap, notCache>>

\* cache_analyze(flow, trial) on a trial that cache_generate has seen: one
\* the cache answered, or one a client has measured (reported: its
\* performance); grow_ok: array_grow succeeds
CacheAnalyze(t) ==
    /\ trial[t].phase = "out"
    /\ \E reported \in Perfs, grow_ok \in BOOLEAN :
         LET perf == IF trial[t].status = "HFLOW_RETURN" THEN trial[t].perf
                     ELSE reported
         IN  IF skip = 0 /\ Len(cache) = cache_cap /\ ~grow_ok
             THEN /\ cache_ret' = -1
                  /\ UNCHANGED <<cache, cache_cap, skip, flow_status>>
             ELSE /\ cache_ret' = 0
                  /\ flow_status' = "HFLOW_ACCEPT"
                  /\ skip' = 0
                  /\ IF skip = 0
                     THEN /\ cache' = Append(cache, [point |-> trial[t].point,
                                                     perf |-> perf])
                          /\ cache_cap' = IF Len(cache) = cache_cap
                                          THEN GrowTo(cache_cap)
                                          ELSE cache_cap
                     ELSE UNCHANGED <<cache, cache_cap>>
    /\ trial' = [trial EXCEPT ![t] = DoneTrial]
    /\ UNCHANGED <<cache_file, notCache>>

NextCache ==
    \/ \E t \in TrialIds : CacheGenerate(t)
    \/ \E t \in TrialIds : CacheAnalyze(t)

SpecCache == InitCache /\ [][NextCache]_vars

(***************************************************************************)
(* Properties of the cache layer (SpecCache)                               *)
(***************************************************************************)
\* two points are the same point: as many values, of the same types, equal
SamePoint(a, b) ==
    /\ Len(a) = Len(b)
    /\ \A i \in 1..Len(a) : a[i].type = b[i].type /\ a[i].v = b[i].v

\* the step is cache_generate on trial t
GenerateStep(t) == trial[t].phase = "new" /\ trial'[t].phase = "out"

\* the step is cache_analyze on trial t
AnalyzeStep(t) == trial[t].phase = "out" /\ trial'[t].phase = "done"

\* C25: cache_generate on a trial whose point is in the cache sets the flow
\* status to HFLOW_RETURN and the trial's performance to one recorded for
\* that point; on a trial whose point is not in the cache it sets
\* HFLOW_ACCEPT and leaves the trial's performance and the cache unchanged.
C25_LookupOrPassThrough ==
    [][\A t \in TrialIds :
          GenerateStep(t) =>
              IF \E i \in 1..Len(cache) :
                    SamePoint(trial'[t].point, cache[i].point)
              THEN /\ flow_status' = "HFLOW_RETURN"
                   /\ \E i \in 1..Len(cache) :
                         /\ SamePoint(trial'[t].point, cache[i].point)
                         /\ trial'[t].perf = cache[i].perf
              ELSE /\ flow_status' = "HFLOW_ACCEPT"
                   /\ trial'[t].perf = trial[t].perf
                   /\ cache' = cache]_vars

\* a trial was answered from the cache while another, not in the cache, was
\* passed on
C25_Witness ==
    /\ trial[1].phase = "out"
    /\ trial[1].status = "HFLOW_RETURN"
    /\ trial[1].perf = 10
    /\ trial[2].phase = "out"
    /\ trial[2].status = "HFLOW_ACCEPT"

\* C26: cache_analyze adds a trial's point/performance pair to the cache if
\* and only if cache_generate did not answer that trial from the cache.
C26_AddsUnlessHit ==
    [][\A t \in TrialIds :
          (AnalyzeStep(t) /\ cache_ret' = 0) =>
              IF trial[t].status = "HFLOW_RETURN"
              THEN cache' = cache
              ELSE /\ Len(cache') = Len(cache) + 1
                   /\ SubSeq(cache', 1, Len(cache)) = cache
                   /\ cache'[Len(cache')].point = trial[t].point]_vars

(***************************************************************************)
(* Properties of the dispatch (Spec)                                       *)
(***************************************************************************)
\* C27: a dispatch takes the first slot in registry order whose pid is idle
\* and touches no other slot; a slot that holds a worker's pid keeps it until
\* that worker has been reaped and the pid cleared.
C27_FirstIdleSlot ==
    [][/\ DispatchStep =>
            \E i \in 1..Len(gen_list) :
                /\ gen_list[i].pid = 0
                /\ \A j \in 1..(i - 1) : gen_list[j].pid # 0
                /\ gen_list'[i].step = timestep
                /\ \A j \in 1..Len(gen_list) :
                      j # i => gen_list'[j] = gen_list[j]
       /\ ~InitStep =>
            \A i \in 1..Len(gen_list) :
                gen_list[i].pid # 0 =>
                    \/ gen_list'[i].pid = gen_list[i].pid
                    \/ gen_list'[i].pid = 0 /\ ~children'[gen_list[i].pid]]_vars

\* the first slot was reaped and has its second job, while the second slot
\* still works on its first
C27_Witness ==
    /\ Len(gen_list) = 2
    /\ gen_list[1].pid # 0
    /\ gen_list[1].step = 2
    /\ gen_list[2].pid # 0
    /\ gen_list[2].step = 1

\* C28: the result file written when a slot is reaped, code_complete.<s> for
\* the step s recorded on the slot, holds the message of candidate.<s>.
C28_ResultCarriesItsPoint ==
    [][\A i \in 1..Len(gen_list) :
          (~InitStep /\ SlotReaped(i)) =>
              LET s == gen_list[i].step
              IN  IF reply_url.host = <<>>
                  THEN out_local'[s] = Envelope(Point(s))
                  ELSE last_scp' = "ok" => out_remote'[s] = Envelope(Point(s))]_vars

(***************************************************************************)
(* The coordinator under fairness (SpecLive): main keeps running, and a    *)
(* waitpid that can return a child does so                                 *)
(***************************************************************************)
\* main keeps running: a pass of the loop that can be made is made, and a
\* waitpid that can return a child returns one.  The pass that works off an
\* initialization file is left out: C29 is about what happens when none
\* arrives.
SpecLive ==
    /\ Spec
    /\ WF_vars(PollReap)
    /\ WF_vars(Dispatch)
    /\ WF_vars(BlockingWait)
    /\ WF_vars(BlockingWaitNoChild)

\* step s is on a slot that holds a worker's pid
Outstanding(s) ==
    \E i \in 1..Len(gen_list) : gen_list[i].pid # 0 /\ gen_list[i].step = s

\* a worker has ended otherwise than by a successful command and exit(0)
WorkerFailed == last_exit \in {"cmd_fail", "killed"}

\* C29: when main keeps running, every dispatched step s has, in the end,
\* its result file published and its slot freed, unless an initialization
\* file arrives or a worker fails.
C29_DispatchedIsPublished ==
    \A s \in Steps :
        Outstanding(s) ~>
            \/ Published(s) /\ ~Outstanding(s)
            \/ init_file
            \/ WorkerFailed

\* C30: at every time the workers launched and not yet gone are at most as
\* many as the registry has slots.
C30_WorkersWithinRegistry == Cardinality(Live) <= Len(gen_list)

(***************************************************************************)
(* Properties of the initialization pass of main (Spec)                    *)
(***************************************************************************)
\* the step is the pass of main's loop that finds the initialization file
InitPass == FileStep /\ init_file

\* the registry holds, in order, the slots the host-spec names, every one idle
RebuiltFrom(list, slaves) ==
    /\ slaves # NullPtr
    /\ Len(list) = Len(NamesOf(EntriesOf(slaves)))
    /\ \A i \in 1..Len(list) :
          /\ list[i].hostname = NamesOf(EntriesOf(slaves))[i]
          /\ list[i].pid = 0

\* C31: the pass that works off an initialization file removes the file,
\* whether the bootstrap succeeds or fails; when it succeeds the registry has
\* been rebuilt from the host-spec of the new session with every slot idle
\* and the step counter is 0.
C31_InitRebuildsSession ==
    [][InitPass =>
          /\ ~init_file'
          /\ init_ret' \in {"ok", "failed"}
          /\ init_ret' = "ok" =>
                /\ timestep' = 0
                /\ \E n \in CfgNames :
                      /\ appname' = <<n>>
                      /\ RebuiltFrom(gen_list', CfgOf(n).slaves)]_vars

\* a second session was set up while a worker of the first was running: one
\* idle slot, step 0, no initialization file
C31_Witness ==
    /\ init_ret = "ok"
    /\ appname = <<"relay">>
    /\ Len(gen_list) = 1
    /\ gen_list[1].pid = 0
    /\ timestep = 0
    /\ ~init_file
    /\ Live # {}

\* the step changes the acknowledgment code_complete.-1, here or at the reply
\* endpoint
AckChanged == out_local'[-1] # out_local[-1] \/ out_remote'[-1] # out_remote[-1]

\* a URL the session may not give: neither dir://<path> nor
\* ssh://[user@]host[:port]/path
MalformedUrl(str) == ~(StartsWith(str, SchemeDir) \/ SshUri(str))

\* the session message lacks a key, or one of its endpoints or its host-spec
\* is malformed
Defective(c) ==
    \/ NullPtr \in {c.local, c.target, c.reply, c.slaves, c.slave_path}
    \/ MalformedUrl(c.local) \/ MalformedUrl(c.target) \/ MalformedUrl(c.reply)
    \/ ~ValidSpec(c.slaves)

AwayFiles == SUBSET {0, 1}

InitInbox ==
    /\ gen_list = <<>>
    /\ timestep = 0
    /\ num_ready \in UninitInts
    /\ status = "uninit"
    /\ local_url = [EmptyUrl EXCEPT !.path = <<"d">>]
    /\ target_url = EmptyUrl
    /\ reply_url = EmptyUrl
    /\ appname = <<>>
    /\ slave_path = <<>>
    /\ pc = "loop"
    /\ init_file = FALSE
    /\ cand = {}
    /\ cand_away \in AwayFiles
    /\ stale = {}
    /\ out_local = [k \in OutSteps |-> Absent]
    /\ out_remote = [k \in OutSteps |-> Absent]
    /\ children = [p \in Pids |-> FALSE]
    /\ files_sent = 0
    /\ last_exit = "none"
    /\ read_ret = 0
    /\ last_scp = "none"
    /\ init_ret = "none"
    /\ started = FALSE
    /\ ParseIdle
    /\ UrlIdle
    /\ WorkerIdle
    /\ LibIdle

InboxInitSession == InitSessionOn(InitContentsOf(MovedNames))

NextInbox ==
    \/ PollReap
    \/ InboxInitSession
    \/ Dispatch
    \/ BlockingWait
    \/ BlockingWaitNoChild
    \/ ServerInit
    \/ ServerPoint

SpecInbox == InitInbox /\ [][NextInbox]_vars

\* C33: a successful bootstrap leaves the inbox of the new session without
\* any point file, so that no point file that was in that directory before
\* the bootstrap is dispatched; and a pass of the loop that finds both the
\* initialization file and the next point file works off the initialization
\* file and dispatches nothing.
C33_BootstrapClearsInbox ==
    [][/\ (InitPass /\ init_ret' = "ok") => cand' = {}
       /\ (started /\ DispatchStep) => timestep \notin stale
       /\ (InitPass /\ timestep \in cand) =>
             (~init_file' /\ children' = children /\ read_ret' = read_ret)]_vars

(***************************************************************************)
(* More properties of the dispatch loop (Spec)                             *)
(***************************************************************************)
\* C34: outside an initialization, candidate.<s> is removed only by a step
\* after which the worker of step s has been reaped and the result of step s
\* is published; after every step, the point file of a step whose worker
\* still runs exists.
C34_PointFileRemovedAtReap ==
    [][~InitStep =>
          /\ \A s \in Steps :
                (s \in cand /\ s \notin cand') =>
                    (Published(s)' /\ ~Outstanding(s)')
          /\ \A i \in 1..Len(gen_list') :
                (gen_list'[i].pid # 0 /\ children'[gen_list'[i].pid]) =>
                    gen_list'[i].step \in cand']_vars

\* the session configuration: the registry's slots by name and order, the
\* application name, the slave path and the three endpoints
SessionConfig(list) ==
    <<[i \in 1..Len(list) |-> list[i].hostname], appname, slave_path,
      local_url, target_url, reply_url>>

\* C35: no step other than the pass that works off an initialization file
\* changes the registry's size, slot order or slot hostnames, the application
\* name, the slave path or the local, target and reply endpoints.
C35_ConfigReadOnly ==
    [][~InitPass => SessionConfig(gen_list)' = SessionConfig(gen_list)]_vars

\* within the session "keep": step 0 was dispatched, reaped and published,
\* another step is on a slot, and the registry is still a_1, a_2
C35_Witness ==
    /\ init_ret = "ok"
    /\ appname = <<"keep">>
    /\ Published(0)
    /\ \E i \in 1..Len(gen_list) : gen_list[i].pid # 0 /\ gen_list[i].step = 1
    /\ [i \in 1..Len(gen_list) |-> gen_list[i].hostname]
           = <<<<"a", "_", "1">>, <<"a", "_", "2">>>>

(***************************************************************************)
(* More properties of the Generator Worker (SpecWorker)                    *)
(***************************************************************************)
\* every value of the point, in order, whatever its type
AllValues(point) == [i \in 1..Len(point) |-> point[i].v]

\* C36: for every point, of integer, real or enumerated values, the command
\* line is, in order: the optional "ssh <host>", "exec" with the script
\* <slave_path>/<slot_name>_<app>/chill_script.<app>.sh, one array argument
\* that lists every value of the point in order, the logical hostname, the
\* working directory, the target host and the target path.
C36_CommandListsEveryValue ==
    wpc \in {"ran", "exited"} =>
        LET host  == LogicalHost(w_gen.hostname)
            local == host = local_url.host
            dir   == slave_path \o <<"/">> \o w_gen.hostname \o <<"_">> \o appname
            array == ValuesText(AllValues(w_point))
        IN  w_cmd =
              (IF local THEN <<>> ELSE Text_ssh \o host \o <<" ">>)
              \o Text_exec \o dir \o Text_script \o appname \o Text_sh
              \o (IF local THEN <<"\"">> \o array \o <<"\"", " ">>
                           ELSE <<"\\", "\"">> \o array \o <<"\\", "\"", " ">>)
              \o host \o <<" ">> \o dir \o <<" ">>
              \o target_url.host \o <<" ">> \o target_url.path

(***************************************************************************)
(* The free-slot bookkeeping of main (Spec)                                *)
(***************************************************************************)
\* the slots of the registry whose pid is idle
IdleSlots == {i \in 1..Len(gen_list) : gen_list[i].pid = 0}

\* main is about to dispatch candidate.<timestep>
AtDispatch == pc = "loop" /\ ~init_file /\ timestep \in cand

\* C37: whenever main is about to dispatch a point file, some slot of the
\* registry is idle, and the "Generator vector overflow" assertion is never
\* reached.
C37_SlotFreeAtDispatch ==
    /\ AtDispatch => IdleSlots # {}
    /\ pc # "abort"

\* C38: at the top of every iteration of main's loop, num_ready is the number
\* of slots whose pid is idle.  Stated for the iterations that follow a
\* successful initialization: before the first one num_ready has no value
\* the code gave it.
C38_NumReadyCountsIdleSlots ==
    (init_ret = "ok" /\ pc = "loop") => num_ready = Cardinality(IdleSlots)

(***************************************************************************)
(* More properties of tuna (SpecTuna)                                      *)
(***************************************************************************)
\* C39: when tuna has launched a Harmony server and main returns, by
\* whichever path (failed session launch, failed join, failed fetch or
\* report, convergence, loop limit), the server has been sent SIGKILL.
C39_ServerKilledOnExit ==
    (tpc = "returned" /\ svr_state # "none") => svr_state = "killed"

(***************************************************************************)
(* More properties of the cache layer (SpecCache)                          *)
(***************************************************************************)
\* no two entries of the cache hold the same point
NoDuplicates(c) ==
    \A i, j \in 1..Len(c) : i # j => ~SamePoint(c[i].point, c[j].point)

\* C40: starting from an empty cache, after every call of cache_generate or
\* cache_analyze, with several trials outstanding at once, the cache holds
\* no two entries for the same point, has not fewer entries than before the
\* call, and not more entries than its allocated capacity.
C40_CacheIsASet ==
    [][~cache_file =>
          /\ NoDuplicates(cache')
          /\ Len(cache') >= Len(cache)
          /\ Len(cache') <= cache_cap']_vars

====
